---------------------------- MODULE Spec2Model ----------------------------
(***************************************************************************)
(* The /api/improve serverless handler of sentence-fixer, in its three     *)
(* revisions: the Groq handler (src/api/improve.js:4-148), the Gemini      *)
(* handler (src/api/improve.js:161-270) and the OpenAI handler             *)
(* (src/unnamed/part_000:4-148).  One inbound request is handled at a      *)
(* time; the handler suspends at `await fetch(...)` and at                 *)
(* `await response.json()`.  The page script (src/app.js) that posts the   *)
(* form to /api/improve is modelled beside it, against every response a    *)
(* browser can hand it.                                                    *)
(*                                                                         *)
(* JavaScript values are records tagged by `t` (typeof / null / array).    *)
(* Texts are sequences of tokens: a token is one whitespace character, one *)
(* ``` fence marker, one run of prose, one brace, one complete member list *)
(* of a JSON object, or one complete JSON scalar or array literal.         *)
(***************************************************************************)
EXTENDS Integers, Sequences, FiniteSets, TLC

\* ------------------------------------------------------------------ bounds
MaxWrap == 2        \* tokens of prose/fence/whitespace/braces around a reply
MaxAlts == 7        \* longest alternatives array a provider reply carries
MaxWords == 2       \* words of an inbound sentence
MaxLead == 1        \* leading blanks of an inbound sentence
MaxPending == 2     \* submit listeners of the page suspended at an await

\* --------------------------------------------------------------- JS values
Undefined == [t |-> "undefined"]
Null == [t |-> "null"]
JStr(s) == [t |-> "string", s |-> s]
JNum(s) == [t |-> "number", s |-> s]
JArr(a) == [t |-> "array", a |-> a]
JObj(c, e, al) == [t |-> "object", corrected |-> c, explanation |-> e, alternatives |-> al]

\* a JavaScript condition: !v is ~Truthy(v)
Truthy(v) ==
    CASE v.t = "undefined" -> FALSE
      [] v.t = "null" -> FALSE
      [] v.t = "string" -> v.s # ""
      [] v.t = "number" -> v.s # "0"
      [] OTHER -> TRUE

IsString(v) == v.t = "string"
IsArray(v) == v.t = "array"
\* typeof v === 'object' (null and arrays included)
TypeofObject(v) == v.t \in {"object", "array", "null"}

\* property read v.name of a parsed value; a read on null throws (see OpenAI)
Prop(v, name) ==
    IF v.t = "object"
    THEN CASE name = "corrected" -> v.corrected
           [] name = "explanation" -> v.explanation
           [] OTHER -> v.alternatives
    ELSE Undefined

\* Array.prototype.slice(0, n)
Slice(a, n) == SubSeq(a, 1, IF Len(a) < n THEN Len(a) ELSE n)

\* ------------------------------------------------------------------- texts
WS == [k |-> "ws"]
Fence == [k |-> "fence"]
Prose == [k |-> "prose"]
LBrace == [k |-> "{"]
RBrace == [k |-> "}"]
Members(o) == [k |-> "members", o |-> o]
Literal(v) == [k |-> "literal", v |-> v]

RECURSIVE TrimStart(_)
TrimStart(text) ==
    IF text # <<>> /\ Head(text) = WS THEN TrimStart(Tail(text)) ELSE text

RECURSIVE TrimEnd(_)
TrimEnd(text) ==
    IF text # <<>> /\ text[Len(text)] = WS
    THEN TrimEnd(SubSeq(text, 1, Len(text) - 1))
    ELSE text

\* String.prototype.trim
Trim(text) == TrimEnd(TrimStart(text))

\* String.prototype.indexOf / lastIndexOf of a one-character string, 0-based,
\* -1 when absent
indexOf(text, tok) ==
    IF \E i \in 1..Len(text) : text[i] = tok
    THEN (CHOOSE i \in 1..Len(text) :
            text[i] = tok /\ \A j \in 1..(i - 1) : text[j] # tok) - 1
    ELSE -1

lastIndexOf(text, tok) ==
    IF \E i \in 1..Len(text) : text[i] = tok
    THEN (CHOOSE i \in 1..Len(text) :
            text[i] = tok /\ \A j \in (i + 1)..Len(text) : text[j] # tok) - 1
    ELSE -1

\* String.prototype.substring(from, to), 0-based, `to` exclusive
substring(text, from, to) == SubSeq(text, from + 1, to)

\* the JSON grammar drops insignificant whitespace between its tokens
StripWs(text) == SelectSeq(text, LAMBDA tok : tok # WS)

\* JSON.parse: [ok |-> TRUE, v |-> value], or [ok |-> FALSE] for a SyntaxError
JSONparse(text) ==
    LET s == StripWs(text) IN
    CASE Len(s) = 1 /\ s[1].k = "literal" -> [ok |-> TRUE, v |-> s[1].v]
      [] Len(s) = 2 /\ s[1] = LBrace /\ s[2] = RBrace ->
            [ok |-> TRUE, v |-> JObj(Undefined, Undefined, Undefined)]
      [] Len(s) = 3 /\ s[1] = LBrace /\ s[2].k = "members" /\ s[3] = RBrace ->
            [ok |-> TRUE, v |-> s[2].o]
      [] OTHER -> [ok |-> FALSE]


\* ------------------------------------------------------- inbound sentences
\* A sentence string is `lead` blanks followed by words joined by one blank.
JSentence(lead, w) == [t |-> "string", lead |-> lead, w |-> w]

Vocabulary == {"the", "la", "manana~", "dia'", "perro", "extraordinariamente"}

\* the word's characters: "manana~" stands for man-n-tilde-ana (6 characters),
\* "dia'" for d-i-acute-a (3 characters)
WordLen(w) ==
    CASE w = "the" -> 3
      [] w = "la" -> 2
      [] w = "manana~" -> 6
      [] w = "dia'" -> 3
      [] w = "perro" -> 5
      [] OTHER -> 19

\* /[......]/i of the accented characters and inverted marks
HasSpanishChar(w) == w \in {"manana~", "dia'"}

\* the maximal runs of \w characters of a word: \b is ASCII-only, so an
\* accented letter ends a run
Runs(w) ==
    CASE w = "manana~" -> {"ma", "ana"}
      [] w = "dia'" -> {"d", "a"}
      [] OTHER -> {w}

SpanishWords == {"el", "la", "los", "las", "un", "una", "unos", "unas", "es", "son"}
EnglishWords == {"the", "is", "are", "was", "were", "a", "an", "this", "that", "these", "those"}

RECURSIVE SumLen(_)
SumLen(w) == IF w = <<>> THEN 0 ELSE WordLen(Head(w)) + SumLen(Tail(w))

\* sentence.length
StrLength(s) == s.lead + SumLen(s.w) + (IF Len(s.w) > 1 THEN Len(s.w) - 1 ELSE 0)

\* sentence.trim() === ''
TrimIsEmpty(s) == s.w = <<>>

\* a sentence value as a JavaScript condition
SentenceTruthy(v) ==
    CASE v.t = "string" -> StrLength(v) > 0
      [] v.t = "number" -> v.s # "0"
      [] OTHER -> FALSE

isSpanish(s) ==
    \/ \E i \in 1..Len(s.w) : HasSpanishChar(s.w[i])
    \/ \E i \in 1..Len(s.w) : Runs(s.w[i]) \cap SpanishWords # {}

isEnglish(s) == \E i \in 1..Len(s.w) : Runs(s.w[i]) \cap EnglishWords # {}

GuardMinLength == 20

\* the OpenAI handler's language guard: TRUE when it answers 400 itself
LanguageGuardRejects(sentence, language) ==
    IF language = "Spanish" /\ ~isSpanish(sentence) /\ ~isEnglish(sentence)
    THEN FALSE
    ELSE /\ language = "English"
         /\ isSpanish(sentence)
         /\ ~isEnglish(sentence)
         /\ StrLength(sentence) > GuardMinLength

\* ------------------------------------------------------------ input spaces
RECURSIVE SeqsUpTo(_, _)
SeqsUpTo(S, n) ==
    IF n = 0 THEN {<<>>}
    ELSE LET shorter == SeqsUpTo(S, n - 1) IN
         shorter \cup {Append(q, x) : q \in shorter, x \in S}

Sentences ==
    {Undefined, JNum("5")}
    \cup {JSentence(l, w) : l \in 0..MaxLead, w \in SeqsUpTo(Vocabulary, MaxWords)}

Languages == {"English", "Spanish"}
Methods == {"POST", "GET", "PUT"}

JBody(sentence, language) ==
    [t |-> "object", sentence |-> sentence, language |-> language, tone |-> "neutral"]

Bodies == {Undefined} \cup {JBody(s, l) : s \in Sentences, l \in Languages}

Requests == [method : Methods, body : Bodies]

\* ---------------------------------------------------------- provider side
\* a string whose characters are the tokens x (the model's reply text)
JText(x) == [t |-> "string", x |-> x]

\* what `await fetch(...)` settles to: a rejection (network failure) or a
\* response with an HTTP status
FetchOutcomes == {[t |-> "reject"]} \cup {[t |-> "response", status |-> s] : s \in {200, 401, 429}}

\* response.ok
Ok(r) == r.status >= 200 /\ r.status <= 299

MismatchMessage(language) == "Your sentence doesn't look like " \o language \o ". Please try again."

CorrectedValues == {Undefined, JStr(""), JStr("the fixed sentence"), JNum("7")}
ExplanationValues ==
    {Undefined, JStr(""), JStr("explanation of changes made"), JNum("7")}
    \cup {JStr(MismatchMessage(l)) : l \in Languages}

AltsOfLen(n) == [i \in 1..n |-> JStr("alternative " \o ToString(i))]
AlternativesValues ==
    {Undefined, JStr("alternative 1"), JArr(<<JStr("alternative 1"), JNum("2")>>)}
    \cup {JArr(AltsOfLen(n)) : n \in 0..MaxAlts}

ResultObjects ==
    {JObj(c, e, al) : c \in CorrectedValues, e \in ExplanationValues, al \in AlternativesValues}

ValidResult == JObj(JStr("the fixed sentence"), JStr("explanation of changes made"), JArr(AltsOfLen(2)))
Sentinel(language) == JObj(JStr(""), JStr(MismatchMessage(language)), JArr(<<>>))

ObjectText(o) == <<LBrace, Members(o), RBrace>>

Literals == {JNum("42"), Null, JStr("plain words"), JArr(<<JStr("alternative 1")>>)}

\* the texts a reply is built around: nothing, a bare literal, an object
Cores ==
    {<<>>, <<LBrace, RBrace>>}
    \cup {<<Literal(v)>> : v \in Literals}
    \cup {ObjectText(o) : o \in ResultObjects}
FewCores == {<<>>, <<Literal(JNum("42"))>>, <<LBrace, RBrace>>, ObjectText(ValidResult)}

Noise == {WS, Fence, Prose, LBrace, RBrace}
Wrappers == SeqsUpTo(Noise, MaxWrap)
FewWrappers ==
    {<< <<>>, <<>> >>, << <<Fence, WS>>, <<WS, Fence>> >>, << <<Prose, WS>>, <<WS, Prose>> >>,
     << <<Prose>>, <<>> >>, << <<>>, <<Prose>> >>, << <<WS>>, <<WS>> >>}

\* every wrapping of a few replies, and a few wrappings of every reply
ContentsRich ==
    {pre \o core \o post : pre \in Wrappers, post \in Wrappers, core \in FewCores}
    \cup {w[1] \o core \o w[2] : w \in FewWrappers, core \in Cores}

ContentsBasic ==
    {<<>>, <<Prose>>, <<Literal(JNum("42"))>>, ObjectText(ValidResult),
     <<Fence, WS>> \o ObjectText(ValidResult) \o <<WS, Fence>>}
    \cup {ObjectText(Sentinel(l)) : l \in Languages}

ProviderMessages == {Undefined, JStr("Rate limit reached")}

\* what `await response.json()` settles to: a rejection (the body is not
\* JSON), null (the body is the JSON text null), or the parsed body, of which
\* the handlers read choices[0].message.content
\* (candidates[0].content.parts[0].text) and error.message; a reply text
\* comes with a success status
JsonOutcomes(ok, Contents) ==
    {[t |-> "reject"], Null}
    \cup {[t |-> "json", content |-> Undefined, message |-> m] : m \in ProviderMessages}
    \cup {[t |-> "json", content |-> JText(x), message |-> Undefined] :
            x \in IF ok THEN Contents ELSE {}}

\* ------------------------------------------------------------ the handlers
Variants == {"groq", "gemini", "openai"}

\* the object literal {error: msg}
JErr(msg) == [t |-> "object", error |-> msg]

\* one console.error call
LogEntry(label, msg, text) == [label |-> label, msg |-> msg, text |-> text]

\* what a run of handler code ends with: the response sent and the lines logged
Outcome(status, body, log) == [status |-> status, body |-> body, log |-> log]

MaxAlternatives == 5

\* the outer catch block
Catch(variant, message) ==
    Outcome(500,
            JErr(IF variant = "openai"
                 THEN (IF message # "" THEN message ELSE "An internal error occurred")
                 ELSE "Invalid AI response"),
            <<LogEntry("Error in improve API:", message, <<>>)>>)

MethodNotAllowed(variant) ==
    Outcome(405,
            JErr(IF variant = "openai" THEN "Method not allowed. Use POST." ELSE "Method not allowed"),
            <<>>)

\* the validation of body.sentence: TRUE when the handler answers 400
SentenceRejected(variant, sentence) ==
    \/ ~SentenceTruthy(sentence)
    \/ sentence.t # "string"
    \/ variant # "openai" /\ TrimIsEmpty(sentence)

SentenceRequired(variant) ==
    Outcome(400,
            JErr(IF variant = "openai"
                 THEN "Sentence is required and must be a string."
                 ELSE "Sentence is required"),
            <<>>)

LanguageMismatch ==
    Outcome(400,
            JErr("The sentence appears to be in Spanish, but English was selected. Please select the correct language."),
            <<>>)

KeyName(variant) ==
    CASE variant = "groq" -> "GROQ_API_KEY"
      [] variant = "gemini" -> "GEMINI_API_KEY"
      [] OTHER -> "OPENAI_API_KEY"

ProviderName(variant) ==
    CASE variant = "groq" -> "Groq"
      [] variant = "gemini" -> "Gemini"
      [] OTHER -> "OpenAI"

KeyNotConfigured(variant) ==
    Outcome(500,
            JErr("API key not configured. Please set " \o KeyName(variant) \o " environment variable."),
            <<>>)

\* errorData.error?.message || `<Provider> API error: ${response.status}`
ProviderErrorMessage(variant, errorData, status) ==
    IF errorData.t = "json" /\ Truthy(errorData.message)
    THEN errorData.message.s
    ELSE ProviderName(variant) \o " API error: " \o ToString(status)

\* NotOk with every revision throwing into the outer catch
NotOkThrows(variant, errorData, status) ==
    Catch(variant, ProviderErrorMessage(variant, errorData, status))

\* the branch taken on !response.ok
NotOk(variant, errorData, status) ==
    LET message == ProviderErrorMessage(variant, errorData, status) IN
    IF variant = "groq"
    THEN Outcome(500, JErr(message), <<LogEntry("Groq API error:", message, <<>>)>>)
    ELSE Catch(variant, message)

\* the branch taken on !content
NoContent(variant, data) ==
    IF variant = "groq"
    THEN Outcome(500, JErr("No response from AI"), <<LogEntry("Empty AI response:", "", <<>>)>>)
    ELSE Catch(variant, "No response from AI")

\* the Groq handler's field coercions; JSON.stringify of an array drops the
\* named properties the coercions add to it
GroqCoerce(parsed) ==
    IF Truthy(parsed) /\ TypeofObject(parsed) /\ ~IsArray(parsed)
    THEN JObj(IF IsString(parsed.corrected) THEN parsed.corrected ELSE JStr(""),
              IF IsString(parsed.explanation) THEN parsed.explanation ELSE JStr(""),
              IF IsArray(parsed.alternatives) THEN parsed.alternatives ELSE JArr(<<>>))
    ELSE parsed

\* the text between the first '{' and the last '}', or <<>> when the handlers
\* attempt no second parse
BraceSpan(text) ==
    LET firstBrace == indexOf(text, LBrace)
        lastBrace == lastIndexOf(text, RBrace)
    IN  IF firstBrace # -1 /\ lastBrace # -1 /\ lastBrace > firstBrace
        THEN substring(text, firstBrace, lastBrace + 1)
        ELSE <<>>

GroqNormalize(content) ==
    LET trimmedText == Trim(content)
        direct == JSONparse(trimmedText)
        jsonStr == BraceSpan(trimmedText)
        second == JSONparse(jsonStr)
        invalid == Outcome(500, JErr("Invalid AI response"),
                           <<LogEntry("Raw Groq response:", "", trimmedText)>>)
    IN  IF direct.ok THEN Outcome(200, GroqCoerce(direct.v), <<>>)
        ELSE IF jsonStr # <<>> /\ second.ok THEN Outcome(200, GroqCoerce(second.v), <<>>)
        ELSE invalid

GeminiNormalize(content) ==
    LET trimmedContent == Trim(content)
        direct == JSONparse(trimmedContent)
    IN  IF direct.ok THEN Outcome(200, direct.v, <<>>)
        ELSE Outcome(500, JErr("Invalid AI response"),
                     <<LogEntry("Failed to parse AI response:", "", trimmedContent)>>)

\* the OpenAI handler's check of the parsed value and its 200 response
OpenAIValidate(parsed) ==
    IF parsed.t = "null"
    THEN Catch("openai", "Cannot read properties of null (reading 'corrected')")
    ELSE IF \/ ~Truthy(Prop(parsed, "corrected"))
            \/ ~Truthy(Prop(parsed, "explanation"))
            \/ ~IsArray(Prop(parsed, "alternatives"))
    THEN Catch("openai", "Invalid response format from AI")
    ELSE Outcome(200,
                 JObj(parsed.corrected, parsed.explanation,
                      JArr(Slice(parsed.alternatives.a, MaxAlternatives))),
                 <<>>)

OpenAINormalize(content) ==
    LET direct == JSONparse(content)
        jsonMatch == BraceSpan(content)
        second == JSONparse(jsonMatch)
    IN  IF direct.ok THEN OpenAIValidate(direct.v)
        ELSE IF jsonMatch # <<>> /\ second.ok THEN OpenAIValidate(second.v)
        ELSE Catch("openai", "Failed to parse AI response as JSON")

\* the handler from the reply text to its response
Normalize(variant, content) ==
    CASE variant = "groq" -> GroqNormalize(content)
      [] variant = "gemini" -> GeminiNormalize(content)
      [] OTHER -> OpenAINormalize(content)

\* data.choices?.[0]?.message?.content is falsy
ContentMissing(data) == data.content.t # "string" \/ data.content.x = <<>>

\* the handler from the settled response.json() to its response
AfterJson(variant, response, data) ==
    IF data.t = "null"
    THEN Catch(variant, IF Ok(response)
                        THEN "Cannot read properties of null (reading 'choices')"
                        ELSE "Cannot read properties of null (reading 'error')")
    ELSE IF ~Ok(response) THEN NotOk(variant, data, response.status)
    ELSE IF data.t = "reject" THEN Catch(variant, "Unexpected token in JSON")
    ELSE IF ContentMissing(data) THEN NoContent(variant, data)
    ELSE Normalize(variant, data.content.x)

\* --------------------------------------------------------------- the state
VARIABLES
    variant,    \* which revision of the handler is deployed
    apiKey,     \* whether process.env holds the provider credential
    pc,         \* "idle", "handling", "fetch", "json", "done"
    req,        \* the inbound request being handled
    response,   \* what fetch resolved to
    data,       \* what response.json() settled to
    res,        \* the response sent: [status, body], status 0 before any
    calls,      \* outbound fetch calls started for this request
    settled,    \* outbound fetch calls settled for this request
    responses,  \* responses sent for this request
    logs,       \* console.error lines of this request
    bodyRead,   \* req.body has been read
    keyRead,    \* process.env.<KEY> has been read
    \* the page of src/app.js
    improveBtn,         \* [disabled, textContent]
    loadingIndicator,   \* [hidden]
    errorMessage,       \* [hidden, textContent]
    resultsSection,     \* [hidden]
    correctedOutput,    \* textContent
    explanationOutput,  \* textContent
    alternativesOutput, \* innerHTML: nothing, a <p>, or a <ul> of items
    pending             \* the submit listeners suspended at an await

handlerVars == <<variant, apiKey, pc, req, response, data, res, calls, settled,
                 responses, logs, bodyRead, keyRead>>

formVars == <<improveBtn, loadingIndicator, errorMessage, resultsSection,
              correctedOutput, explanationOutput, alternativesOutput, pending>>

vars == <<handlerVars, formVars>>

\* the page when DOMContentLoaded has fired: the button can be pressed and
\* nothing is shown, which is also the state setLoadingState(false),
\* hideError() and classList.add('hidden') of the listener put it back in
PageLoaded ==
    /\ improveBtn = [disabled |-> FALSE, textContent |-> "Improve"]
    /\ loadingIndicator = [hidden |-> TRUE]
    /\ errorMessage = [hidden |-> TRUE, textContent |-> ""]
    /\ resultsSection = [hidden |-> TRUE]
    /\ correctedOutput = ""
    /\ explanationOutput = ""
    /\ alternativesOutput = [k |-> "empty", items |-> <<>>]
    /\ pending = <<>>

None == [t |-> "none"]
NoRequest == [method |-> "", body |-> Undefined]
NotSent == [status |-> 0, body |-> Undefined]

Init ==
    /\ variant \in Variants
    /\ apiKey \in BOOLEAN
    /\ pc = "idle"
    /\ req = NoRequest
    /\ response = None
    /\ data = None
    /\ res = NotSent
    /\ calls = 0
    /\ settled = 0
    /\ responses = 0
    /\ logs = <<>>
    /\ bodyRead = FALSE
    /\ keyRead = FALSE
    /\ PageLoaded

\* res.status(...).json(...) together with the console.error calls before it
Send(o) ==
    /\ res' = [status |-> o.status, body |-> o.body]
    /\ responses' = responses + 1
    /\ logs' = logs \o o.log
    /\ pc' = "done"

\* the platform invokes the handler with a request
Receive(R) ==
    /\ pc = "idle"
    /\ req' \in R
    /\ pc' = "handling"
    /\ UNCHANGED <<variant, apiKey, response, data, res, calls, settled,
                   responses, logs, bodyRead, keyRead>>
    /\ UNCHANGED formVars

\* the invocation is over: nothing of it is kept for the next one
Return ==
    /\ pc = "done"
    /\ pc' = "idle"
    /\ req' = NoRequest
    /\ response' = None
    /\ data' = None
    /\ res' = NotSent
    /\ calls' = 0
    /\ settled' = 0
    /\ responses' = 0
    /\ logs' = <<>>
    /\ bodyRead' = FALSE
    /\ keyRead' = FALSE
    /\ UNCHANGED <<variant, apiKey>>
    /\ UNCHANGED formVars

\* StopsAt with the sentence validated before the method is looked at
StopsAtBodyFirst(v, r, key) ==
    IF r.body.t # "object" THEN "body"
    ELSE IF SentenceRejected(v, r.body.sentence) THEN "sentence"
    ELSE IF r.method # "POST" THEN "method"
    ELSE IF v = "openai" /\ LanguageGuardRejects(r.body.sentence, r.body.language) THEN "guard"
    ELSE IF ~key THEN "key"
    ELSE "fetch"

\* StopsAt with the language guard run by every revision
StopsAtGuardEverywhere(v, r, key) ==
    IF r.method # "POST" THEN "method"
    ELSE IF r.body.t # "object" THEN "body"
    ELSE IF SentenceRejected(v, r.body.sentence) THEN "sentence"
    ELSE IF LanguageGuardRejects(r.body.sentence, r.body.language) THEN "guard"
    ELSE IF ~key THEN "key"
    ELSE "fetch"

\* how far the handler gets before the fetch: "method", "body" (req.body has
\* no properties to read), "sentence", "guard", "key", or "fetch"
StopsAt(v, r, key) ==
    IF r.method # "POST" THEN "method"
    ELSE IF r.body.t # "object" THEN "body"
    ELSE IF SentenceRejected(v, r.body.sentence) THEN "sentence"
    ELSE IF v = "openai" /\ LanguageGuardRejects(r.body.sentence, r.body.language) THEN "guard"
    ELSE IF ~key THEN "key"
    ELSE "fetch"

BeforeFetch(v, stop) ==
    CASE stop = "method" -> MethodNotAllowed(v)
      [] stop = "body" -> Catch(v, "Cannot read properties of undefined (reading 'sentence')")
      [] stop = "sentence" -> SentenceRequired(v)
      [] stop = "guard" -> LanguageMismatch
      [] OTHER -> KeyNotConfigured(v)

\* the handler up to `await fetch(...)`
Validate ==
    /\ pc = "handling"
    /\ LET stop == StopsAt(variant, req, apiKey) IN
       /\ bodyRead' = (stop # "method")
       /\ keyRead' = (stop \in {"key", "fetch"})
       /\ IF stop = "fetch"
          THEN /\ calls' = calls + 1
               /\ pc' = "fetch"
               /\ UNCHANGED <<res, responses, logs>>
          ELSE /\ Send(BeforeFetch(variant, stop))
               /\ UNCHANGED calls
    /\ UNCHANGED <<variant, apiKey, req, response, data, settled>>
    /\ UNCHANGED formVars

\* `await fetch(...)` settles
FetchSettles ==
    /\ pc = "fetch"
    /\ \E outcome \in FetchOutcomes :
         /\ settled' = settled + 1
         /\ IF outcome.t = "reject"
            THEN /\ Send(Catch(variant, "fetch failed"))
                 /\ UNCHANGED response
            ELSE /\ response' = outcome
                 /\ pc' = "json"
                 /\ UNCHANGED <<res, responses, logs>>
    /\ UNCHANGED <<variant, apiKey, req, data, calls, bodyRead, keyRead>>
    /\ UNCHANGED formVars

\* `await response.json()` settles and the handler runs to its end
JsonSettles(Contents) ==
    /\ pc = "json"
    /\ \E outcome \in JsonOutcomes(Ok(response), Contents) :
         /\ data' = outcome
         /\ Send(AfterJson(variant, response, outcome))
    /\ UNCHANGED <<variant, apiKey, req, response, calls, settled, bodyRead, keyRead>>
    /\ UNCHANGED formVars

Next ==
    \/ Receive(Requests)
    \/ Validate
    \/ FetchSettles
    \/ JsonSettles(ContentsBasic)
    \/ Return

Spec == Init /\ [][Next]_vars

\* the same handler under one well-formed request and the wide reply space
CanonicalRequests == {[method |-> "POST", body |-> JBody(JSentence(0, <<"the", "perro">>), l)] : l \in {"English"}}

NextReplies ==
    \/ Receive(CanonicalRequests)
    \/ Validate
    \/ FetchSettles
    \/ JsonSettles(ContentsRich)
    \/ Return

SpecReplies == Init /\ [][NextReplies]_vars

\* ------------------------------------------------- the page (src/app.js)
\* sentenceInput.value when the form is submitted
FormValues == {JSentence(l, w) : l \in 0..1, w \in {<<>>, <<"the", "perro">>}}

\* what `await fetch('/api/improve', ...)` settles to in the browser
PageFetchOutcomes ==
    {[t |-> "reject"]} \cup {[t |-> "response", status |-> s] : s \in {200, 400, 500}}

\* what `await response.json()` settles to in the browser: a rejection (the
\* body is not JSON) or the parsed body
PageJsonOutcomes ==
    {[t |-> "reject"], Null, JNum("42"), ValidResult, Sentinel("English"),
     JObj(JNum("7"), Undefined, JStr("alternative 1")),
     JErr("Sentence is required"), JErr("")}

\* data.<name> of a parsed body that is not null
Field(d, name) ==
    IF d.t = "object" /\ name \in DOMAIN d
    THEN IF name = "error" THEN JStr(d.error) ELSE d[name]
    ELSE Undefined

\* the string a value is shown as when assigned to textContent
String(v) ==
    CASE v.t \in {"string", "number"} -> v.s
      [] OTHER -> "[object]"

\* v || 'N/A'
OrNA(v) == IF Truthy(v) THEN String(v) ELSE "N/A"

showError(message) == [hidden |-> FALSE, textContent |-> message]

hideError(element) == [element EXCEPT !.hidden = TRUE]

\* setLoadingState without its first line, improveBtn.disabled = isLoading
setLoadingStateTextOnly(isLoading) ==
    [btn |-> [disabled |-> FALSE,
              textContent |-> IF isLoading THEN "Generating..." ELSE "Improve"],
     loading |-> [hidden |-> ~isLoading]]

\* the button and the loading indicator as setLoadingState leaves them
setLoadingState(isLoading) ==
    [btn |-> [disabled |-> isLoading,
              textContent |-> IF isLoading THEN "Generating..." ELSE "Improve"],
     loading |-> [hidden |-> ~isLoading]]

\* the three outputs as displayResults(data) fills them, data not null
displayResults(d) ==
    [corrected |-> OrNA(Field(d, "corrected")),
     explanation |-> OrNA(Field(d, "explanation")),
     alternatives |->
        LET al == Field(d, "alternatives") IN
        IF Truthy(al) /\ IsArray(al) /\ Len(al.a) > 0
        THEN [k |-> "ul", items |-> [i \in 1..Len(al.a) |-> String(al.a[i])]]
        ELSE [k |-> "p", items |-> <<>>]]

\* the try block from `await response.json()` on: the message handed to
\* showError by the catch, or the data handed to displayResults
Caught(message) == [shown |-> "error", message |-> message, data |-> Undefined]
Displayed(d) == [shown |-> "results", message |-> "", data |-> d]

AfterPageJson(status, d) ==
    IF d.t = "reject"
    THEN Caught("Unexpected token '<', \"<!DOCTYPE \"... is not valid JSON")
    ELSE IF ~Ok([status |-> status])
    THEN IF d.t = "null"
         THEN Caught("Cannot read properties of null (reading 'error')")
         ELSE Caught(IF Truthy(Field(d, "error"))
                     THEN Field(d, "error").s
                     ELSE "An error occurred while processing your request.")
    ELSE IF d.t = "null"
    THEN Caught("Cannot read properties of null (reading 'corrected')")
    ELSE Displayed(d)

RemoveAt(q, i) == SubSeq(q, 1, i - 1) \o SubSeq(q, i + 1, Len(q))

\* catch and finally of listener i: showError(error.message) and
\* setLoadingState(false)
CatchFinally(i, message) ==
    /\ errorMessage' = showError(message)
    /\ improveBtn' = setLoadingState(FALSE).btn
    /\ loadingIndicator' = setLoadingState(FALSE).loading
    /\ pending' = RemoveAt(pending, i)
    /\ UNCHANGED <<resultsSection, correctedOutput, explanationOutput, alternativesOutput>>

\* the user submits the form with the button (a disabled button submits
\* nothing); the listener runs to its return or to `await fetch(...)`
Submit ==
    /\ ~improveBtn.disabled
    /\ Len(pending) < MaxPending
    /\ \E value \in FormValues :
         IF TrimIsEmpty(value)
         THEN /\ errorMessage' = showError("Please enter a sentence to improve.")
              /\ UNCHANGED <<improveBtn, loadingIndicator, resultsSection, pending>>
         ELSE /\ errorMessage' = hideError(errorMessage)
              /\ resultsSection' = [hidden |-> TRUE]
              /\ improveBtn' = setLoadingState(TRUE).btn
              /\ loadingIndicator' = setLoadingState(TRUE).loading
              /\ pending' = Append(pending, [stage |-> "fetch", status |-> 0])
    /\ UNCHANGED <<correctedOutput, explanationOutput, alternativesOutput>>
    /\ UNCHANGED handlerVars

\* `await fetch(...)` of a suspended listener settles: a rejection goes
\* through catch and finally, a response is read with response.json()
PageFetchSettles ==
    /\ \E i \in 1..Len(pending) :
         /\ pending[i].stage = "fetch"
         /\ \E outcome \in PageFetchOutcomes :
              IF outcome.t = "reject"
              THEN CatchFinally(i, "Failed to fetch")
              ELSE /\ pending' = [pending EXCEPT ![i] = [stage |-> "json", status |-> outcome.status]]
                   /\ UNCHANGED <<improveBtn, loadingIndicator, errorMessage, resultsSection,
                                  correctedOutput, explanationOutput, alternativesOutput>>
    /\ UNCHANGED handlerVars

\* `await response.json()` of a suspended listener settles and the listener
\* runs to its end
PageJsonSettles ==
    /\ \E i \in 1..Len(pending) :
         /\ pending[i].stage = "json"
         /\ \E d \in PageJsonOutcomes :
              LET end == AfterPageJson(pending[i].status, d) IN
              IF end.shown = "error"
              THEN CatchFinally(i, end.message)
              ELSE /\ correctedOutput' = displayResults(end.data).corrected
                   /\ explanationOutput' = displayResults(end.data).explanation
                   /\ alternativesOutput' = displayResults(end.data).alternatives
                   /\ resultsSection' = [hidden |-> FALSE]
                   /\ improveBtn' = setLoadingState(FALSE).btn
                   /\ loadingIndicator' = setLoadingState(FALSE).loading
                   /\ pending' = RemoveAt(pending, i)
                   /\ UNCHANGED errorMessage
    /\ UNCHANGED handlerVars

NextForm ==
    \/ Submit
    \/ PageFetchSettles
    \/ PageJsonSettles

SpecForm == Init /\ [][NextForm]_vars

\* ================================================================== claims
Handled == pc = "done"
IsPost == req.method = "POST"
Arrived == pc # "idle"

\* C1: a request whose method is not POST is answered 405, and at no point of
\* its handling has the body been read, the credential been read or the
\* provider been called, whatever the body is (an absent body included).
C1_NonPostIs405 ==
    (Arrived /\ ~IsPost) =>
        /\ ~bodyRead
        /\ ~keyRead
        /\ calls = 0
        /\ pc \in {"handling", "done"}
        /\ Handled => (res.status = 405 /\ responses = 1 /\ "error" \in DOMAIN res.body)

C1_Witness ==
    /\ Handled
    /\ req.method = "GET"
    /\ req.body = Undefined
    /\ res.status = 405

\* the sentence of the request is missing, not a string, empty, or blank
SentenceMissing ==
    \/ req.body.t # "object"
    \/ req.body.sentence.t # "string"
    \/ req.body.sentence.w = <<>>

\* C2: a POST whose sentence is missing (no body at all included), not a
\* string, empty, or empty after trimming is answered 400 with
\* {error: "Sentence is required"}, and the provider is never called for it.
C2_MissingSentenceIs400 ==
    (Arrived /\ IsPost /\ SentenceMissing) =>
        /\ calls = 0
        /\ Handled => (res.status = 400 /\ res.body = JErr("Sentence is required"))

\* the body is {corrected: string, explanation: string, alternatives: string[]}
IsCorrectionResult(b) ==
    /\ b.t = "object"
    /\ "corrected" \in DOMAIN b
    /\ IsString(b.corrected)
    /\ IsString(b.explanation)
    /\ IsArray(b.alternatives)
    /\ \A i \in 1..Len(b.alternatives.a) : IsString(b.alternatives.a[i])

\* the body is {error: <string>}
IsErrorBody(b) == b.t = "object" /\ "error" \in DOMAIN b

\* C3: whatever the request and the provider's reply, the response is either
\* 200 with a body {corrected: string, explanation: string, alternatives:
\* string[]} or a non-2xx status with a body {error: string}; no 200 carries a
\* body of another shape.
C3_ResponseShape ==
    Handled =>
        \/ res.status = 200 /\ IsCorrectionResult(res.body)
        \/ (res.status < 200 \/ res.status > 299) /\ IsErrorBody(res.body)

\* C4: every result sent with status 200 is valid (non-empty corrected,
\* non-empty explanation, alternatives an array of strings) or is the
\* rejection sentinel (corrected "", the fixed mismatch message, no
\* alternatives).  Stated of the 200 bodies that have the result's shape, so
\* that a violation is a partially filled result and nothing else.
C4_ValidOrSentinel ==
    (Handled /\ res.status = 200 /\ IsCorrectionResult(res.body)) =>
        \/ res.body.corrected.s # "" /\ res.body.explanation.s # ""
        \/ \E l \in Languages : res.body = Sentinel(l)

\* the request has a sentence that passes validation and the credential is set
ValidAndConfigured == Arrived /\ IsPost /\ ~SentenceMissing /\ apiKey

ReplyText ==
    IF Handled /\ response # None /\ Ok(response) /\ data.t = "json" /\ data.content.t = "string"
    THEN data.content.x
    ELSE <<>>

NoBraces(text) == \A i \in 1..Len(text) : text[i] \notin {LBrace, RBrace}

GenericFailure == [status |-> 500, body |-> JErr("Invalid AI response")]

\* C6: when the provider's reply text has neither '{' nor '}', the response
\* is 500 with exactly {error: "Invalid AI response"}.
C6_NoBracesIsGeneric500 ==
    (ReplyText # <<>> /\ NoBraces(ReplyText)) => res = GenericFailure

\* the outbound call was made and failed: it threw, or came back with a
\* non-success status, or with a body that is not JSON or has no content
ProviderFailed ==
    /\ Handled
    /\ calls = 1
    /\ \/ response = None
       \/ ~Ok(response)
       \/ data.t \in {"reject", "null"}
       \/ ContentMissing(data)

\* the failure reached the handler as an exception: fetch rejected, or
\* reading the body threw
Thrown ==
    \/ response = None
    \/ data.t = "null"
    \/ Ok(response) /\ data.t = "reject"

\* C7: when the outbound call fails, the response is 500 with the generic
\* body {error: "Invalid AI response"}.
C7_ProviderFailureIsGeneric ==
    ProviderFailed => res = GenericFailure

\* C7 as amended: the response is 500 with an {error: message} body and one
\* line is logged.  The message is the generic one in the Gemini handler,
\* and in the Groq handler when the failure is an exception (the call
\* rejects, the body cannot be read).  Otherwise the Groq and OpenAI handlers
\* answer a non-success status with the message they log (the provider's
\* own, or "<Provider> API error: <status>") and a reply without content with
\* "No response from AI"; the OpenAI handler answers an exception with the
\* exception's message.
C7_ProviderFailureIs500 ==
    ProviderFailed =>
        /\ res.status = 500
        /\ IsErrorBody(res.body)
        /\ Len(logs) = 1
        /\ (variant = "gemini" \/ (variant = "groq" /\ Thrown)) => res = GenericFailure
        /\ (variant = "openai" /\ Thrown) => res.body.error = logs[1].msg
        /\ (variant # "gemini" /\ ~Thrown /\ ~Ok(response)) =>
              /\ res.body.error = logs[1].msg
              /\ res # GenericFailure
              /\ (data.t = "json" /\ Truthy(data.message)) => res.body.error = data.message.s
        /\ (variant # "gemini" /\ ~Thrown /\ Ok(response)) =>
              res.body.error = "No response from AI"

C7_Witness ==
    /\ ProviderFailed
    /\ variant = "groq"
    /\ response # None
    /\ ~Ok(response)
    /\ res.body = JErr("Rate limit reached")

\* the text is one JSON object carrying a valid result: non-empty corrected
\* and explanation strings and an array of strings
IsResultText(text) ==
    /\ Len(text) = 3
    /\ text[1] = LBrace
    /\ text[2].k = "members"
    /\ text[3] = RBrace
    /\ IsCorrectionResult(text[2].o)
    /\ text[2].o.corrected.s # ""
    /\ text[2].o.explanation.s # ""

\* what the deployed handler answers when the provider's reply text is `text`
ResponseTo(text) ==
    LET o == Normalize(variant, text) IN [status |-> o.status, body |-> o.body]

\* the reply is a ``` fence, a line break, a result text, a line break and the
\* closing fence
FencedReply ==
    /\ Len(ReplyText) = 7
    /\ SubSeq(ReplyText, 1, 2) = <<Fence, WS>>
    /\ SubSeq(ReplyText, 6, 7) = <<WS, Fence>>
    /\ IsResultText(SubSeq(ReplyText, 3, 5))

\* C8: the response to a result text wrapped in a ```json fence is the
\* response, in status and body, to the same text unfenced.
C8_FenceMakesNoDifference ==
    FencedReply => res = ResponseTo(SubSeq(ReplyText, 3, 5))

\* the reply is a result text at tokens i..i+2 with prose (and blanks) before
\* or after it and no other brace
ProseAround(i) ==
    /\ i \in 1..(Len(ReplyText) - 2)
    /\ IsResultText(SubSeq(ReplyText, i, i + 2))
    /\ \A j \in 1..Len(ReplyText) : j \notin i..(i + 2) => ReplyText[j] \in {Prose, WS}
    /\ \E j \in 1..Len(ReplyText) : ReplyText[j] = Prose

\* C9: a result object with brace-free prose before and/or after it is
\* answered 200 with the result the bare object is answered with.
C9_ProseAroundObject ==
    \A i \in 1..Len(ReplyText) :
        ProseAround(i) =>
            /\ res.status = 200
            /\ res = ResponseTo(SubSeq(ReplyText, i, i + 2))

\* the alternatives arrays of the result objects written in the reply text
ReplyAlternatives ==
    {ReplyText[i].o.alternatives.a : i \in {j \in 1..Len(ReplyText) :
        ReplyText[j].k = "members" /\ IsCorrectionResult(ReplyText[j].o)}}

Min(a, b) == IF a < b THEN a ELSE b

\* C10: the alternatives of a 200 response are the first min(n, 5) of the n
\* alternatives of the reply, in their order; none carries more than 5.
C10_AtMostFiveAlternatives ==
    (Handled /\ res.status = 200 /\ res.body.t = "object" /\ "alternatives" \in DOMAIN res.body
        /\ IsArray(res.body.alternatives)) =>
        /\ Len(res.body.alternatives.a) <= 5
        /\ \A alts \in ReplyAlternatives :
              res.body.alternatives.a = SubSeq(alts, 1, Min(Len(alts), 5))

\* the request is a POST for `language` whose sentence is a string longer
\* than 10 characters
LongSentenceFor(language) ==
    /\ Handled
    /\ IsPost
    /\ ~SentenceMissing
    /\ req.body.language = language
    /\ StrLength(req.body.sentence) > 10

\* the body is a result with corrected "" and no alternatives
IsRejection(b) ==
    /\ IsCorrectionResult(b)
    /\ b.corrected.s = ""
    /\ b.alternatives.a = <<>>

\* C11: when the language is "English" and the sentence is longer than 10
\* characters, matches the Spanish heuristic and not the English one, a result
\* returned to the caller is the rejection sentinel (corrected "", no
\* alternatives), whatever the provider returned.
C11_SpanishUnderEnglishIsRejected ==
    (/\ LongSentenceFor("English")
     /\ isSpanish(req.body.sentence)
     /\ ~isEnglish(req.body.sentence)
     /\ res.status = 200) => IsRejection(res.body)

\* C12: when the language is "Spanish" and the sentence is longer than 10
\* characters, matches the English heuristic and not the Spanish one, a result
\* returned to the caller is the rejection sentinel with the fixed mismatch
\* explanation, whatever the provider returned.
C12_EnglishUnderSpanishIsRejected ==
    (/\ LongSentenceFor("Spanish")
     /\ isEnglish(req.body.sentence)
     /\ ~isSpanish(req.body.sentence)
     /\ res.status = 200) => res.body = Sentinel("Spanish")

\* C13: in the page, the Improve button is disabled with the text
\* 'Generating...' and the loading indicator is visible exactly while a
\* request to /api/improve is in flight; when the request has settled (a
\* result, an error response, a network or JSON failure) the button is enabled
\* with the text 'Improve' and the indicator hidden; no second request is in
\* flight beside the first.
C13_ButtonTracksRequest ==
    /\ Len(pending) <= 1
    /\ improveBtn.disabled <=> pending # <<>>
    /\ improveBtn.textContent = (IF pending # <<>> THEN "Generating..." ELSE "Improve")
    /\ loadingIndicator.hidden <=> pending = <<>>

C13_Witness ==
    /\ pending = <<>>
    /\ ~improveBtn.disabled
    /\ improveBtn.textContent = "Improve"
    /\ loadingIndicator.hidden
    /\ ~errorMessage.hidden
    /\ errorMessage.textContent = "Failed to fetch"

\* C14: in the page, after any sequence of submits, the error message and the
\* results section are never both visible.
C14_ErrorAndResultsExclusive ==
    ~(~errorMessage.hidden /\ ~resultsSection.hidden)

====
